---- MODULE Spec2Model ----
(***************************************************************************)
(* The CompanyScraperUpload page (src/src/app/page.tsx, the grouped        *)
(* variant, and src/unnamed/part_000, the flat variant): a CSV of          *)
(* companies is read, cleaned, posted to a webhook, and the profiles the   *)
(* webhook returns are held, grouped and summarised.                       *)
(*                                                                         *)
(* Strings whose characters the code inspects (CSV cells, file names,      *)
(* company names) are sequences of one-character strings; message texts    *)
(* are sequences of string tokens, one token per literal or interpolated   *)
(* value of the template.  A JS value that may be null/undefined is the    *)
(* empty sequence or a one-element sequence; a JS object with optional     *)
(* keys is a function whose DOMAIN holds the keys present.                 *)
(*                                                                         *)
(* Not modelled: the wall-clock processingTime string of the statistics,   *)
(* the DOM value of the file input (a change event may deliver any file at *)
(* any time), and the Blob/anchor plumbing of the download.                *)
(***************************************************************************)
EXTENDS Integers, Sequences, FiniteSets, TLC

\* ---------------------------------------------------------------- bounds
MaxLines == 2        \* data lines of an uploaded CSV
MaxProfiles == 3     \* profiles in one webhook response
MaxTasks == 2        \* handleUpload invocations alive at once

\* ------------------------------------------------------- program constants
DefaultMaxResults == 20

\* ---------------------------------------------------------------- strings
SP == " "
Digits == <<"0", "1", "2", "3", "4", "5", "6", "7", "8", "9">>

Null == <<>>
Some(v) == <<v>>

IsDigit(c) == \E d \in 1..Len(Digits) : Digits[d] = c
DigitValue(c) == (CHOOSE d \in 1..Len(Digits) : Digits[d] = c) - 1

RECURSIVE Join(_)
\* The characters of s as one string token.
Join(s) == IF s = <<>> THEN "" ELSE Head(s) \o Join(Tail(s))

RECURSIVE TrimStart(_)
TrimStart(s) == IF s # <<>> /\ Head(s) = SP THEN TrimStart(Tail(s)) ELSE s

RECURSIVE TrimEnd(_)
TrimEnd(s) ==
    IF s # <<>> /\ s[Len(s)] = SP THEN TrimEnd(SubSeq(s, 1, Len(s) - 1)) ELSE s

\* String.prototype.trim
Trim(s) == TrimEnd(TrimStart(s))

\* String.prototype.endsWith
EndsWith(s, suffix) ==
    /\ Len(s) >= Len(suffix)
    /\ SubSeq(s, Len(s) - Len(suffix) + 1, Len(s)) = suffix

RECURSIVE DigitPrefix(_)
\* The longest prefix of s made of decimal digits.
DigitPrefix(s) ==
    IF s # <<>> /\ IsDigit(Head(s)) THEN <<Head(s)>> \o DigitPrefix(Tail(s))
    ELSE <<>>

RECURSIVE DecimalValue(_)
DecimalValue(ds) ==
    IF ds = <<>> THEN 0
    ELSE 10 * DecimalValue(SubSeq(ds, 1, Len(ds) - 1)) + DigitValue(ds[Len(ds)])

\* parseInt(v) of a cell that may be undefined: leading white space is
\* skipped, one sign is read, then the longest run of digits; what follows
\* is ignored.  Null is NaN.  (No cell of the model starts with 0x, the one
\* prefix that switches parseInt to radix 16.)
ParseInt(v) ==
    IF v = Null THEN Null
    ELSE LET t == TrimStart(v[1])
             neg == t # <<>> /\ Head(t) = "-"
             signed == t # <<>> /\ Head(t) \in {"-", "+"}
             ds == DigitPrefix(IF signed THEN Tail(t) ELSE t)
         IN  IF ds = <<>> THEN Null
             ELSE Some(IF neg THEN 0 - DecimalValue(ds) ELSE DecimalValue(ds))

\* parseInt(v) || 20: NaN and 0 are the falsy numbers.
MaxResultsOf(v) ==
    LET n == ParseInt(v)
    IN  IF n = Null \/ n[1] = 0 THEN DefaultMaxResults ELSE n[1]

\* ------------------------------------------------------------- CSV input
ColName == "Company Name"
ColRegion == "Region"
ColMax == "Max Results"
\* The header line the page documents; cells are matched to it by position.
Header == <<ColName, ColRegion, ColMax>>

NameCells == { <<>>, <<SP>>, <<SP, "B", SP>> }
RegionCells == { <<>>, <<"U", SP>> }
MaxCells == { <<"x">>, <<"0">>, <<"-", "3">>, <<SP, "7", "x">> }

\* A data line is its cells; a line whose text is empty is one empty cell.
Lines ==
    { <<n>> : n \in NameCells }
      \cup { <<n, r>> : n \in NameCells, r \in RegionCells }
      \cup { <<n, r, m>> : n \in NameCells, r \in RegionCells, m \in MaxCells }

Texts == UNION { [1..k -> Lines] : k \in 0..MaxLines }

\* Papa.parse(text, {header: true, skipEmptyLines: true}).data: empty lines
\* are dropped, every other line becomes an object keyed by the header; a
\* short line leaves the trailing keys undefined.
RowOf(line) == [c \in { Header[j] : j \in 1..Len(line) } |->
                   line[CHOOSE j \in 1..Len(line) : Header[j] = c]]

IsEmptyLine(line) == line = << <<>> >>

RECURSIVE PapaParse(_)
PapaParse(text) ==
    IF text = <<>> THEN <<>>
    ELSE IF IsEmptyLine(Head(text)) THEN PapaParse(Tail(text))
    ELSE <<RowOf(Head(text))>> \o PapaParse(Tail(text))

\* company[key]: Null when the key is undefined
Field(row, key) == IF key \in DOMAIN row THEN Some(row[key]) ELSE Null

\* JS truthiness of a string-or-undefined value
Truthy(v) == v # Null /\ v[1] # <<>>

\* A filter that tests the cells against undefined instead of for truth.
RowPassesIfDefined(row) == Field(row, ColName) # Null /\ Field(row, ColRegion) # Null

\* the .filter callback
RowPasses(row) == Truthy(Field(row, ColName)) /\ Truthy(Field(row, ColRegion))

\* the .map callback
CleanRow(row) ==
    [name |-> Trim(row[ColName]),
     region |-> Trim(row[ColRegion]),
     max |-> MaxResultsOf(Field(row, ColMax))]

RECURSIVE CleanCompanies(_)
\* parsed.data.filter(...).map(...)
CleanCompanies(rows) ==
    IF rows = <<>> THEN <<>>
    ELSE IF RowPasses(Head(rows))
         THEN <<CleanRow(Head(rows))>> \o CleanCompanies(Tail(rows))
         ELSE CleanCompanies(Tail(rows))

\* ------------------------------------------------------------- UI texts
CsvSuffix == <<".", "c", "s", "v">>
FileNames == { <<"a">> \o CsvSuffix, <<"b", ".", "t", "x", "t">> }

Msg(type, text) == Some([type |-> type, text |-> text])

PleaseUploadCsv == <<"Please upload a CSV file">>
ReadyToUpload(name) == <<"Ready to upload: ", Join(name)>>
NoValidRows == <<"No valid rows found in the CSV. Make sure each row includes \"Company Name\" and \"Region\".">>
\* The message of the thrown error without the interpolated status.
HttpErrorNoStatus(status) == <<"HTTP error!">>

HttpError(status) == <<"HTTP error! status: ", ToString(status)>>
ProcessingFailed == "Processing failed"
FailedToProcessFile == "Failed to process file"


\* ------------------------------------------------------------------ state
VARIABLES
    variant,          \* "grouped" (page.tsx) or "flat" (part_000)
    file,             \* useState<File | null>: Null or Some(file name)
    message,          \* useState<{text, type} | null>
    isLoading,        \* useState(false)
    results,          \* useState<ProfileResult[]>([])
    processingStats,  \* useState<{...} | null>
    groupedResults,   \* useState<{[company]: ProfileResult[]}>({}), own keys in creation order
    tasks             \* the handleUpload invocations that have not returned

vars == <<variant, file, message, isLoading, results, processingStats,
          groupedResults, tasks>>

ui == <<file, message, isLoading, results, processingStats, groupedResults>>

Variants == {"grouped", "flat"}

\* `Processing ${cleanedCompanies.length} companies. ...`, as each page words it
ProcessingCompanies(n) ==
    <<"Processing ", ToString(n),
      IF variant = "grouped" THEN " companies. This may take several minutes..."
      ELSE " companies. This may take a few minutes...">>

Init ==
    /\ variant \in Variants
    /\ file = Null
    /\ message = Null
    /\ isLoading = FALSE
    /\ results = <<>>
    /\ processingStats = Null
    /\ groupedResults = <<>>
    /\ tasks = <<>>

\* -------------------------------------------------------- handleFileChange
\* A handler that selects the file and leaves the held results alone.
handleFileChangeKeepsResults(selected) ==
    /\ IF selected = Null
       THEN UNCHANGED ui
       ELSE IF ~EndsWith(selected[1], CsvSuffix)
       THEN /\ message' = Msg("error", PleaseUploadCsv)
            /\ UNCHANGED <<file, isLoading, results, processingStats, groupedResults>>
       ELSE /\ file' = selected
            /\ message' = Msg("info", ReadyToUpload(selected[1]))
            /\ UNCHANGED <<isLoading, results, processingStats, groupedResults>>
    /\ UNCHANGED <<variant, tasks>>

\* selected is e.target.files?.[0]: Null when the dialog delivered no file.
handleFileChange(selected) ==
    /\ IF selected = Null
       THEN UNCHANGED ui
       ELSE IF ~EndsWith(selected[1], CsvSuffix)
       THEN /\ message' = Msg("error", PleaseUploadCsv)
            /\ UNCHANGED <<file, isLoading, results, processingStats, groupedResults>>
       ELSE /\ file' = selected
            /\ message' = Msg("info", ReadyToUpload(selected[1]))
            /\ results' = <<>>
            /\ processingStats' = Null
            /\ groupedResults' = <<>>
            /\ UNCHANGED isLoading
    /\ UNCHANGED <<variant, tasks>>

SelectFile == \E selected \in {Null} \cup { Some(f) : f \in FileNames } :
                  handleFileChange(selected)

\* ------------------------------------------------------------ handleUpload
\* A submit button that forgets the loading flag: disabled={!file}.
SubmitDisabledNoLoading == file = Null

\* <button type="submit" disabled={isLoading || !file}>
SubmitDisabled == isLoading \/ file = Null

Task(pc, text, parsed, cleaned, response) ==
    [pc |-> pc, text |-> text, parsed |-> parsed,
     cleanedCompanies |-> cleaned, response |-> response]

RemoveAt(s, i) == SubSeq(s, 1, i - 1) \o SubSeq(s, i + 1, Len(s))

\* Submitting the form runs handleUpload up to `await file.text()`.
Submit ==
    /\ ~SubmitDisabled
    /\ Len(tasks) < MaxTasks
    /\ file # Null
    /\ isLoading' = TRUE
    /\ results' = <<>>
    /\ processingStats' = Null
    /\ groupedResults' = <<>>
    /\ tasks' = Append(tasks, Task("reading", <<>>, <<>>, <<>>, Null))
    /\ UNCHANGED <<variant, file, message>>

\* A catch/finally that shows the error and clears the file but leaves the
\* loading flag as it is.
FailLeavesLoading(i, errMessage) ==
    /\ message' = Msg("error", IF Join(errMessage) = "" THEN <<FailedToProcessFile>>
                               ELSE errMessage)
    /\ file' = Null
    /\ tasks' = RemoveAt(tasks, i)
    /\ UNCHANGED <<variant, isLoading, results, processingStats, groupedResults>>

\* A catch/finally that shows the error and ends loading but leaves the
\* selected file in place.
FailKeepsFile(i, errMessage) ==
    /\ message' = Msg("error", IF Join(errMessage) = "" THEN <<FailedToProcessFile>>
                               ELSE errMessage)
    /\ isLoading' = FALSE
    /\ tasks' = RemoveAt(tasks, i)
    /\ UNCHANGED <<variant, file, results, processingStats, groupedResults>>

\* catch { setMessage(error) } finally { setIsLoading(false); setFile(null) },
\* after which invocation i has returned.  errMessage is err.message, as
\* tokens; the text shown is err.message || 'Failed to process file'.
Fail(i, errMessage) ==
    /\ message' = Msg("error", IF Join(errMessage) = "" THEN <<FailedToProcessFile>>
                               ELSE errMessage)
    /\ isLoading' = FALSE
    /\ file' = Null
    /\ tasks' = RemoveAt(tasks, i)
    /\ UNCHANGED <<variant, results, processingStats, groupedResults>>

\* ------------------------------------------------------- webhook answers
Acme == <<"A", "c", "m", "e">>
FortyTwo == <<"4", "2">>
UnknownCompany == <<"U", "n", "k", "n", "o", "w", "n", SP, "C", "o", "m", "p", "a", "n", "y">>

\* search_company of a returned profile: undefined, "", or a company name
CompanyValues == { Null, Some(<<>>), Some(Acme), Some(FortyTwo) }

\* A ProfileResult: the k-th profile of a response is named by its position;
\* the fields the page only displays (title, url, email, ...) ride along
\* unread and are left out.
Profile(k, company) ==
    [f \in {"name"} \cup (IF company = Null THEN {} ELSE {"search_company"}) |->
        IF f = "name" THEN <<"p", Digits[k + 1]>> ELSE company[1]]

ProfileSeqs ==
    UNION { { [k \in 1..n |-> Profile(k, cs[k])] : cs \in [1..n -> CompanyValues] }
            : n \in 0..MaxProfiles }

BodyKeys == {"status", "message", "profiles", "totalCompanies", "totalProfiles",
             "processedCompanies"}

\* A ProcessingResponse with the keys whose option is not Null.
Body(opts) == [k \in { k \in BodyKeys : opts[k] # Null } |-> opts[k][1]]

Bodies ==
    { Body([status |-> Some(st), message |-> m, profiles |-> ps,
            totalCompanies |-> tc, totalProfiles |-> tp, processedCompanies |-> pcs]) :
        st \in {"success", "error"},
        m \in {Null, Some(""), Some("Quota exceeded")},
        ps \in {Null} \cup { Some(p) : p \in ProfileSeqs },
        tc \in {Null, Some(1)},
        tp \in {Null, Some(2)},
        pcs \in {Null, Some(<<Acme>>)} }

JsonSyntaxError == <<"Unexpected token < in JSON at position 0">>
RejectMessages == { <<"">>, <<"Failed to fetch">> }

\* What fetch resolves with: the status line and the body, Null when the
\* body is not JSON (response.json() then rejects).
Responses ==
    { [ok |-> FALSE, status |-> s, json |-> Null] : s \in {404, 500} }
      \cup { [ok |-> TRUE, status |-> 200, json |-> Null] }
      \cup { [ok |-> TRUE, status |-> 200, json |-> Some(b)] : b \in Bodies }

\* result[key], Null when undefined
Prop(obj, key) == IF key \in DOMAIN obj THEN Some(obj[key]) ELSE Null

\* ---------------------------------------------------------------- grouping
\* A JS object is the sequence of its own [key, value] entries in the order
\* the keys were created.
HasKey(obj, key) == \E j \in 1..Len(obj) : obj[j].key = key
IndexOfKey(obj, key) == CHOOSE j \in 1..Len(obj) : obj[j].key = key

\* profile.search_company || 'Unknown Company'
CompanyKey(profile) ==
    LET c == Prop(profile, "search_company")
    IN  IF c = Null \/ c[1] = <<>> THEN UnknownCompany ELSE c[1]

\* A callback that starts the company's list afresh on every profile:
\* grouped[company] = [profile].
GroupIntoOverwrites(grouped, profile) ==
    LET key == CompanyKey(profile)
        g == IF HasKey(grouped, key) THEN grouped
             ELSE Append(grouped, [key |-> key, value |-> <<>>])
        j == IndexOfKey(g, key)
    IN  [g EXCEPT ![j].value = <<profile>>]

\* One turn of the forEach callback.
GroupInto(grouped, profile) ==
    LET key == CompanyKey(profile)
        g == IF HasKey(grouped, key) THEN grouped
             ELSE Append(grouped, [key |-> key, value |-> <<>>])
        j == IndexOfKey(g, key)
    IN  [g EXCEPT ![j].value = Append(@, profile)]

RECURSIVE GroupAll(_, _)
GroupAll(grouped, profiles) ==
    IF profiles = <<>> THEN grouped
    ELSE GroupAll(GroupInto(grouped, Head(profiles)), Tail(profiles))

\* const grouped = {}; result.profiles.forEach(...)
GroupProfiles(profiles) == GroupAll(<<>>, profiles)

\* 2^32 - 1, in digits
MaxIndexDigits == <<"4", "2", "9", "4", "9", "6", "7", "2", "9", "5">>

RECURSIVE DigitsLess(_, _)
\* a < b for two numerals of the same length
DigitsLess(a, b) ==
    /\ a # <<>>
    /\ \/ DigitValue(Head(a)) < DigitValue(Head(b))
       \/ Head(a) = Head(b) /\ DigitsLess(Tail(a), Tail(b))

\* An own key that is a canonical array index (a decimal numeral without a
\* leading zero, below 2^32 - 1) is enumerated before every other key.
IsArrayIndex(key) ==
    /\ key # <<>>
    /\ \A j \in 1..Len(key) : IsDigit(key[j])
    /\ (Len(key) > 1 => key[1] # "0")
    /\ \/ Len(key) < Len(MaxIndexDigits)
       \/ Len(key) = Len(MaxIndexDigits) /\ DigitsLess(key, MaxIndexDigits)

RECURSIVE InsertByIndex(_, _)
InsertByIndex(sorted, e) ==
    IF sorted = <<>> THEN <<e>>
    ELSE IF DecimalValue(e.key) < DecimalValue(Head(sorted).key) THEN <<e>> \o sorted
    ELSE <<Head(sorted)>> \o InsertByIndex(Tail(sorted), e)

RECURSIVE SortByIndex(_)
SortByIndex(es) ==
    IF es = <<>> THEN <<>> ELSE InsertByIndex(SortByIndex(Tail(es)), Head(es))

\* Object.entries(obj), in the order the language defines for own keys:
\* array indices ascending, then the other keys in creation order.
ObjectEntries(obj) ==
    LET IsIdx(e) == IsArrayIndex(e.key)
        NotIdx(e) == ~IsArrayIndex(e.key)
    IN  SortByIndex(SelectSeq(obj, IsIdx)) \o SelectSeq(obj, NotIdx)

\* ------------------------------------------------- handleUpload, continued
TaskAt(i, pc) == i \in 1..Len(tasks) /\ tasks[i].pc = pc

\* file.text() resolves with the file's lines.
FileTextResolves(i, text) ==
    /\ TaskAt(i, "reading")
    /\ tasks' = [tasks EXCEPT ![i] = Task("parsing", text, <<>>, <<>>, Null)]
    /\ UNCHANGED <<variant, ui>>

\* file.text() rejects.
FileTextRejects(i, errMessage) ==
    /\ TaskAt(i, "reading")
    /\ Fail(i, errMessage)

\* From Papa.parse to the call of fetch, or to the throw of "No valid rows".
ParseAndDispatch(i) ==
    /\ TaskAt(i, "parsing")
    /\ \E parsed \in {PapaParse(tasks[i].text)} :
       \E cleanedCompanies \in {CleanCompanies(parsed)} :
           IF Len(cleanedCompanies) = 0
           THEN Fail(i, NoValidRows)
           ELSE /\ message' = Msg("info", ProcessingCompanies(Len(cleanedCompanies)))
                /\ tasks' = [tasks EXCEPT
                               ![i] = Task("fetching", <<>>, parsed, cleanedCompanies, Null)]
                /\ UNCHANGED <<variant, file, isLoading, results, processingStats,
                               groupedResults>>

\* The POST {body: cleanedCompanies} reaches the webhook; nothing of the
\* invocation reads parsed or cleanedCompanies after the call of fetch.
WebhookReceives(i) ==
    /\ TaskAt(i, "fetching")
    /\ tasks' = [tasks EXCEPT ![i] = Task("awaiting", <<>>, <<>>, <<>>, Null)]
    /\ UNCHANGED <<variant, ui>>

\* fetch rejects (no connection, CORS, ...).
FetchRejects(i, errMessage) ==
    /\ TaskAt(i, "fetching") \/ TaskAt(i, "awaiting")
    /\ Fail(i, errMessage)

\* fetch resolves with the webhook's answer.
ResponseArrives(i, response) ==
    /\ TaskAt(i, "awaiting")
    /\ tasks' = [tasks EXCEPT ![i] = Task("responded", <<>>, <<>>, <<>>, Some(response))]
    /\ UNCHANGED <<variant, ui>>

\* x || 0 for an optional number
OrZero(v) == IF v = Null THEN 0 ELSE v[1]
\* x || [] for an optional array
OrEmpty(v) == IF v = Null THEN <<>> ELSE v[1]
\* `${x}` for an optional number
Show(v) == IF v = Null THEN "undefined" ELSE ToString(v[1])

\* A success test that forgets the status: `if (result.profiles)`.
IsSuccessAnyStatus(result) == Prop(result, "profiles") # Null

\* result.status === 'success' && result.profiles
IsSuccess(result) ==
    /\ Prop(result, "status") = Some("success")
    /\ Prop(result, "profiles") # Null

\* The three setState calls and the setMessage of the success branch (the
\* grouped page's message opens with an emoji, left out of the token).
ShowSuccess(result) ==
    /\ results' = result.profiles
    /\ groupedResults' =
         IF variant = "grouped" THEN GroupProfiles(result.profiles) ELSE <<>>
    /\ processingStats' =
         IF variant = "grouped"
         THEN Some([totalCompanies |-> OrZero(Prop(result, "totalCompanies")),
                    totalProfiles |-> OrZero(Prop(result, "totalProfiles")),
                    processedCompanies |-> OrEmpty(Prop(result, "processedCompanies"))])
         ELSE Some([totalCompanies |-> OrZero(Prop(result, "totalCompanies")),
                    totalProfiles |-> OrZero(Prop(result, "totalProfiles"))])
    /\ message' =
         IF variant = "grouped"
         THEN Msg("success",
                  <<"Success! Found ", Show(Prop(result, "totalProfiles")),
                    " profiles across ",
                    ToString(Len(OrEmpty(Prop(result, "processedCompanies")))),
                    " companies">>)
         ELSE Msg("success",
                  <<"Success! Found ", Show(Prop(result, "totalProfiles")),
                    " profiles across ", Show(Prop(result, "totalCompanies")),
                    " companies">>)

\* result.message || 'Processing failed'
FailureText(result) ==
    LET m == Prop(result, "message")
    IN  IF m = Null \/ m[1] = "" THEN <<ProcessingFailed>> ELSE <<m[1]>>

\* From `if (!response.ok)` to the end of the finally block.
HandleResponse(i) ==
    /\ TaskAt(i, "responded")
    /\ LET response == tasks[i].response[1]
       IN  IF ~response.ok
           THEN Fail(i, HttpError(response.status))
           ELSE IF response.json = Null
           THEN Fail(i, JsonSyntaxError)
           ELSE IF IsSuccess(response.json[1])
           THEN /\ ShowSuccess(response.json[1])
                /\ isLoading' = FALSE
                /\ file' = Null
                /\ tasks' = RemoveAt(tasks, i)
                /\ UNCHANGED variant
           ELSE Fail(i, FailureText(response.json[1]))

\* --------------------------------------------------------- downloadResults
\* The download button is rendered with the result section.
DownloadRendered ==
    IF variant = "grouped" THEN Len(groupedResults) > 0 ELSE Len(results) > 0

\* if (results.length === 0) return; otherwise a CSV file is handed to the
\* browser.  No state of the page changes.
downloadResults ==
    /\ DownloadRendered
    /\ UNCHANGED vars

DownloadExports == DownloadRendered /\ Len(results) # 0

\* ------------------------------------------------- Papa.unparse and back
QUOTE == "\""
COMMA == ","
CR == "\r"
LF == "\n"

\* The fields of ProfileResult the model carries, in the interface's order,
\* and their names as characters.
ProfileFields == <<"name", "search_company">>
FieldChars(f) ==
    IF f = "name" THEN <<"n", "a", "m", "e">>
    ELSE <<"s", "e", "a", "r", "c", "h", "_", "c", "o", "m", "p", "a", "n", "y">>

\* Papa.unparse(arrayOfObjects) takes its columns from the first object:
\* Object.keys(_input[0]).
Columns(data) == SelectSeq(ProfileFields, LAMBDA f : f \in DOMAIN data[1])

RECURSIVE Doubled(_)
\* str.replace(/"/g, '""')
Doubled(str) ==
    IF str = <<>> THEN <<>>
    ELSE (IF Head(str) = QUOTE THEN <<QUOTE, QUOTE>> ELSE <<Head(str)>>) \o Doubled(Tail(str))

\* A value is quoted when it holds the delimiter, a quote, a line break, or
\* begins or ends with a space.
NeedsQuotes(str) ==
    \/ \E j \in 1..Len(str) : str[j] \in {COMMA, QUOTE, CR, LF}
    \/ str # <<>> /\ (str[1] = SP \/ str[Len(str)] = SP)

\* safe(): undefined and null become the empty string.
Safe(v) ==
    IF v = Null THEN <<>>
    ELSE IF NeedsQuotes(v[1]) THEN <<QUOTE>> \o Doubled(v[1]) \o <<QUOTE>>
    ELSE v[1]

RECURSIVE JoinWith(_, _)
JoinWith(parts, sep) ==
    IF parts = <<>> THEN <<>>
    ELSE IF Len(parts) = 1 THEN parts[1]
    ELSE parts[1] \o sep \o JoinWith(Tail(parts), sep)

\* Papa.unparse(results): a header line of the columns, then one line per
\* object holding the values of those columns, joined by "\r\n".
Unparse(data) ==
    LET fields == Columns(data)
        head == JoinWith([j \in 1..Len(fields) |-> Safe(Some(FieldChars(fields[j])))],
                         <<COMMA>>)
        line(k) == JoinWith([j \in 1..Len(fields) |-> Safe(Prop(data[k], fields[j]))],
                            <<COMMA>>)
    IN  JoinWith(<<head>> \o [k \in 1..Len(data) |-> line(k)], <<CR, LF>>)

RECURSIVE Lex(_, _, _, _, _, _)
\* The parser's pass over the characters: fields split at the delimiter,
\* lines at "\r\n", a field that opens with a quote runs to its closing
\* quote with "" read as one quote.
Lex(csv, i, inQuotes, field, row, rows) ==
    IF i > Len(csv) THEN Append(rows, Append(row, field))
    ELSE LET c == csv[i]
             n == IF i < Len(csv) THEN csv[i + 1] ELSE ""
         IN  IF inQuotes
             THEN IF c = QUOTE
                  THEN IF n = QUOTE
                       THEN Lex(csv, i + 2, TRUE, Append(field, QUOTE), row, rows)
                       ELSE Lex(csv, i + 1, FALSE, field, row, rows)
                  ELSE Lex(csv, i + 1, TRUE, Append(field, c), row, rows)
             ELSE IF c = QUOTE /\ field = <<>>
             THEN Lex(csv, i + 1, TRUE, field, row, rows)
             ELSE IF c = COMMA
             THEN Lex(csv, i + 1, FALSE, <<>>, Append(row, field), rows)
             ELSE IF c = CR /\ n = LF
             THEN Lex(csv, i + 2, FALSE, <<>>, <<>>, Append(rows, Append(row, field)))
             ELSE Lex(csv, i + 1, FALSE, Append(field, c), row, rows)

\* header: true -- a line becomes an object keyed by the first line's cells;
\* a short line leaves the trailing keys undefined.
Keyed(header, line) ==
    LET n == IF Len(line) < Len(header) THEN Len(line) ELSE Len(header)
    IN  [c \in { header[j] : j \in 1..n } |-> line[CHOOSE j \in 1..n : header[j] = c]]

\* Papa.parse(csv, {header: true, skipEmptyLines: true}).data on the
\* characters of a file.
PapaParseText(csv) ==
    LET kept == SelectSeq(Lex(csv, 1, FALSE, <<>>, <<>>, <<>>),
                          LAMBDA line : ~IsEmptyLine(line))
    IN  IF kept = <<>> THEN <<>>
        ELSE [k \in 1..(Len(kept) - 1) |-> Keyed(kept[1], kept[k + 1])]

\* -------------------------------------------------------------------- next
TaskStep(i) ==
    \/ TaskAt(i, "reading") /\ \E text \in Texts : FileTextResolves(i, text)
    \/ \E m \in RejectMessages : FileTextRejects(i, m)
    \/ ParseAndDispatch(i)
    \/ WebhookReceives(i)
    \/ \E m \in RejectMessages : FetchRejects(i, m)
    \/ TaskAt(i, "awaiting") /\ \E response \in Responses : ResponseArrives(i, response)
    \/ HandleResponse(i)

Next ==
    \/ SelectFile
    \/ Submit
    \/ downloadResults
    \/ \E i \in 1..MaxTasks : TaskStep(i)

Spec == Init /\ [][Next]_vars

\* Invocation i leaves the place it is at by a rejected promise or by running
\* its continuation.  At every place of a running invocation one of these
\* steps is possible, and the two steps left out (file.text() and fetch
\* resolving) lead to a place where one is possible again.
Settles(i) ==
    \/ \E m \in RejectMessages : FileTextRejects(i, m)
    \/ ParseAndDispatch(i)
    \/ WebhookReceives(i)
    \/ \E m \in RejectMessages : FetchRejects(i, m)
    \/ HandleResponse(i)

\* The promises a running handleUpload awaits complete or fail, and the event
\* loop then runs its continuation: no invocation stays at one place for ever.
FairSpec == Spec /\ WF_vars(\E i \in 1..MaxTasks : Settles(i))

\* ================================================================= claims
InFlight(pcs) == { i \in DOMAIN tasks : tasks[i].pc \in pcs }

\* A cell of the row is missing: the column is undefined or the cell is empty.
Missing(row, col) == col \notin DOMAIN row \/ row[col] = <<>>
RowMissesRequired(row) == Missing(row, ColName) \/ Missing(row, ColRegion)

\* The cell is empty once the white space around it is removed.
Blank(row, col) ==
    col \notin DOMAIN row \/ \A j \in 1..Len(row[col]) : row[col][j] = SP
RowComplete(row) == ~Blank(row, ColName) /\ ~Blank(row, ColRegion)

\* The tasks that have called fetch and not yet seen its promise settle.
Outstanding == InFlight({"fetching", "awaiting"})

\* C1: when every row of the CSV misses "Company Name" or "Region", the
\* submission ends in the "No valid rows found" error, the invocation
\* returns and no request is issued.
C1_NoValidRowsNoFetch ==
    [][\A i \in 1..MaxTasks :
         (/\ ParseAndDispatch(i)
          /\ \A k \in DOMAIN PapaParse(tasks[i].text) :
                 RowMissesRequired(PapaParse(tasks[i].text)[k]))
         => /\ message' = Msg("error", NoValidRows)
            /\ Len(tasks') = Len(tasks) - 1
            /\ \A j \in DOMAIN tasks' : tasks'[j].pc \notin {"fetching", "awaiting"}
            /\ ~isLoading']_vars

\* A submission has just ended in the "No valid rows found" error.
C1_Witness ==
    /\ message = Msg("error", NoValidRows)
    /\ tasks = <<>>
    /\ ~isLoading
    /\ file = Null

\* C2: every record of a dispatched request body has a "Company Name" and a
\* "Region" that are non-empty after trimming, and the rows that are blank
\* in either are the rows left out.
C2_DispatchedFieldsNonEmpty ==
    \A i \in InFlight({"fetching"}) :
        LET parsed == tasks[i].parsed
            body == tasks[i].cleanedCompanies
        IN  /\ \A k \in DOMAIN body : body[k].name # <<>> /\ body[k].region # <<>>
            /\ Len(body) = Cardinality({ k \in DOMAIN parsed : RowComplete(parsed[k]) })

\* The "Max Results" the specification asks for: the parsed integer when the
\* cell is present and parses as a positive integer, else 20.
ExpectedMax(row) ==
    LET n == ParseInt(Field(row, ColMax))
    IN  IF n # Null /\ n[1] > 0 THEN n[1] ELSE DefaultMaxResults

\* C3: when every row has a non-empty "Company Name" and "Region", the
\* dispatched records are the rows, one for one and in order, each with the
\* trimmed cells and the parsed "Max Results", or 20 when that is absent or
\* invalid.
C3_OneRecordPerRowInOrder ==
    \A i \in InFlight({"fetching"}) :
        LET parsed == tasks[i].parsed
            body == tasks[i].cleanedCompanies
        IN  (\A k \in DOMAIN parsed : RowComplete(parsed[k]))
            => /\ Len(body) = Len(parsed)
               /\ \A k \in DOMAIN parsed :
                    /\ body[k].name = Trim(parsed[k][ColName])
                    /\ body[k].region = Trim(parsed[k][ColRegion])
                    /\ body[k].max = ExpectedMax(parsed[k])

\* C4: the "Max Results" of every dispatched record is a positive integer:
\* the cell's value when it parses as one, the default 20 otherwise.
C4_MaxResultsPositive ==
    \A i \in InFlight({"fetching"}) :
        LET parsed == tasks[i].parsed
            body == tasks[i].cleanedCompanies
        IN  /\ \A k \in DOMAIN body : body[k].max > 0
            /\ Len(body) = Len(parsed)
               => \A k \in DOMAIN body : body[k].max = ExpectedMax(parsed[k])

\* C5: a non-2xx answer ends the submission with an error message that
\* carries the status code, the loading flag off, the file cleared and
\* nothing held as a result.
C5_HttpErrorShown ==
    [][\A i \in 1..MaxTasks :
         (HandleResponse(i) /\ ~tasks[i].response[1].ok)
         => /\ message' # Null
            /\ message'[1].type = "error"
            /\ \E t \in DOMAIN message'[1].text :
                   message'[1].text[t] = ToString(tasks[i].response[1].status)
            /\ ~isLoading'
            /\ file' = Null
            /\ results' = <<>>
            /\ groupedResults' = <<>>
            /\ processingStats' = Null]_vars

\* A submission has just ended on an HTTP 500.
C5_Witness ==
    /\ message # Null
    /\ message[1].type = "error"
    /\ \E t \in DOMAIN message[1].text : message[1].text[t] = "500"
    /\ tasks = <<>>
    /\ ~isLoading
    /\ file = Null
    /\ results = <<>>

\* The message the server supplied, if it supplied a non-empty one.
ServerMessage(body) ==
    IF "message" \in DOMAIN body /\ body["message"] # "" THEN <<body["message"]>>
    ELSE <<"Processing failed">>

GroupLabel(profile) ==
    IF "search_company" \in DOMAIN profile /\ profile["search_company"] # <<>>
    THEN profile["search_company"]
    ELSE UnknownCompany

\* The positions of the profiles of one group, and where the group is first seen.
Members(profiles, label) == { k \in DOMAIN profiles : GroupLabel(profiles[k]) = label }
FirstSeen(profiles, label) ==
    CHOOSE k \in Members(profiles, label) : \A m \in Members(profiles, label) : k <= m

\* C7: the groups the page renders are one per distinct search_company, in
\* first-seen order, each holding its profiles in arrival order.
C7_StableGrouping ==
    variant = "grouped" /\ results # <<>> =>
        LET rendered == ObjectEntries(groupedResults)
            labels == { GroupLabel(results[k]) : k \in DOMAIN results }
        IN  /\ Len(rendered) = Cardinality(labels)
            /\ \A g \in DOMAIN rendered :
                 /\ rendered[g].key \in labels
                 /\ \A k \in DOMAIN rendered[g].value :
                      /\ GroupLabel(rendered[g].value[k]) = rendered[g].key
                      /\ \A m \in DOMAIN rendered[g].value :
                           k < m => \E a, b \in DOMAIN results :
                                       /\ a < b
                                       /\ results[a] = rendered[g].value[k]
                                       /\ results[b] = rendered[g].value[m]
                 /\ Len(rendered[g].value) = Cardinality(Members(results, rendered[g].key))
            /\ \A g, h \in DOMAIN rendered :
                 g < h => FirstSeen(results, rendered[g].key)
                            < FirstSeen(results, rendered[h].key)

\* C8: after a successful answer the summary's totalProfiles is the number
\* of profiles received and held.
C8_TotalProfilesIsCount ==
    processingStats # Null => processingStats[1].totalProfiles = Len(results)

\* C9: at most one invocation of handleUpload is alive and at most one
\* request outstanding; while one is alive the loading flag is on and the
\* form cannot be submitted.
C9_SingleDispatch ==
    /\ Len(tasks) <= 1
    /\ Cardinality(Outstanding) <= 1
    /\ tasks # <<>> => isLoading /\ ~ENABLED Submit

\* A request is outstanding while a file is still selected.
C9_Witness ==
    /\ Len(tasks) = 1
    /\ tasks[1].pc = "awaiting"
    /\ file # Null
    /\ isLoading

\* C10: while a submission is suspended at the network call no other action
\* of the user takes effect: a step that is not the submission's own leaves
\* the file, the message, the results and the statistics as they are, and
\* the download exports nothing.
C10_NoActionWhileSuspended ==
    [][Outstanding # {} =>
         /\ tasks' = tasks =>
              UNCHANGED <<file, message, results, processingStats, groupedResults>>
         /\ ~DownloadExports]_vars

\* Nothing is held as a result.
NothingHeld == results = <<>> /\ groupedResults = <<>> /\ processingStats = Null

\* A file-selection event that delivers a .csv file.
SelectCsv == \E f \in FileNames : EndsWith(f, CsvSuffix) /\ handleFileChange(Some(f))

\* Invocation i ends on the success branch.
EndsInSuccess(i) ==
    /\ HandleResponse(i)
    /\ tasks[i].response[1].ok
    /\ tasks[i].response[1].json # Null
    /\ message' # Null
    /\ message'[1].type = "success"

\* C11, as stated: right after any file-selection event and right after a
\* submission starts nothing is held, and something comes to be held only
\* through a successful response.
C11_ResetOnAnySelection ==
    [][/\ SelectFile => NothingHeld'
       /\ Submit => NothingHeld'
       /\ (NothingHeld /\ ~NothingHeld') => \E i \in 1..MaxTasks : EndsInSuccess(i)]_vars

\* C11, amended: right after a file-selection event that delivers a .csv
\* file and right after a submission starts nothing is held, and something
\* comes to be held only through a successful response.
C11_ResetOnCsvSelection ==
    [][/\ SelectCsv => NothingHeld'
       /\ Submit => NothingHeld'
       /\ (NothingHeld /\ ~NothingHeld') => \E i \in 1..MaxTasks : EndsInSuccess(i)]_vars

\* A submission has started on a selected file and nothing is held.
C11_Witness ==
    /\ Len(tasks) = 1
    /\ tasks[1].pc = "reading"
    /\ file # Null
    /\ message = Msg("info", ReadyToUpload(file[1]))
    /\ NothingHeld

\* Invocation i is about to end on the success branch.
SuccessPending(i) ==
    /\ TaskAt(i, "responded")
    /\ tasks[i].response[1].ok
    /\ tasks[i].response[1].json # Null
    /\ IsSuccess(tasks[i].response[1].json[1])

\* The step in which invocation i returns.
Returns(i) == i \in DOMAIN tasks /\ tasks' = RemoveAt(tasks, i)

\* C12: every submission that starts eventually returns; the step in which
\* it returns leaves the loading flag false and a message of kind success
\* when the answer was a success and of kind error otherwise; and with no
\* submission running the loading flag is false, a .csv file can be selected
\* and a selected file can be submitted.
C12_LinearLifecycle ==
    /\ (tasks # <<>>) ~> (tasks = <<>>)
    /\ [][\A i \in 1..MaxTasks : Returns(i) =>
            /\ ~isLoading'
            /\ message' # Null
            /\ message'[1].type = (IF SuccessPending(i) THEN "success" ELSE "error")]_vars
    /\ [](tasks = <<>> =>
            /\ ~isLoading
            /\ ENABLED SelectCsv
            /\ file # Null => ENABLED Submit)

\* A submission has returned with a success and the page is idle again.
C12_Witness ==
    /\ tasks = <<>>
    /\ ~isLoading
    /\ message # Null
    /\ message[1].type = "success"
    /\ results # <<>>

\* String(v) of a field, the empty string standing for a field that is not
\* there.
AsString(v) == IF v = Null THEN <<>> ELSE v[1]

\* The parsed record equals the profile field for field, as strings.
SameFields(profile, record) ==
    \A f \in { ProfileFields[j] : j \in 1..Len(ProfileFields) } :
        AsString(Prop(profile, f)) = AsString(Field(record, FieldChars(f)))

\* C13: whenever the download exports, parsing the exported text with the
\* header-aware parser gives one record per held profile, in the same order,
\* each equal to its profile field for field as strings.
C13_ExportRoundTrip ==
    DownloadExports =>
        LET back == PapaParseText(Unparse(results))
        IN  /\ Len(back) = Len(results)
            /\ \A k \in 1..Len(results) : SameFields(results[k], back[k])

RECURSIVE GroupSizes(_)
\* The sum of the sizes of the groups.
GroupSizes(grouped) ==
    IF grouped = <<>> THEN 0 ELSE Len(Head(grouped).value) + GroupSizes(Tail(grouped))

\* The groups that hold the profile.
GroupsHolding(profile) ==
    { g \in DOMAIN groupedResults :
        \E j \in DOMAIN groupedResults[g].value : groupedResults[g].value[j] = profile }

\* C14: in the grouped page the grouping map is a partition of the held
\* results: every held profile is in exactly one group, the one keyed by its
\* search_company or by "Unknown Company" when that is empty or absent; no
\* two groups share a key, no group is empty, every member of a group is a
\* held profile, the sizes sum to results.length, and the map is empty
\* exactly when the result list is.
C14_GroupsPartitionResults ==
    variant = "grouped" =>
        /\ \A k \in DOMAIN results :
             /\ Cardinality(GroupsHolding(results[k])) = 1
             /\ \A g \in GroupsHolding(results[k]) :
                  groupedResults[g].key = GroupLabel(results[k])
        /\ \A g, h \in DOMAIN groupedResults :
             groupedResults[g].key = groupedResults[h].key => g = h
        /\ \A g \in DOMAIN groupedResults :
             /\ groupedResults[g].value # <<>>
             /\ \A j \in DOMAIN groupedResults[g].value :
                  \E k \in DOMAIN results : results[k] = groupedResults[g].value[j]
        /\ GroupSizes(groupedResults) = Len(results)
        /\ (groupedResults = <<>>) <=> (results = <<>>)

\* Three profiles are held in two groups, one of them "Unknown Company".
C14_Witness ==
    /\ variant = "grouped"
    /\ Len(results) = 3
    /\ Len(groupedResults) = 2
    /\ \E g \in DOMAIN groupedResults : groupedResults[g].key = UnknownCompany

\* C15: the step in which a submission returns, by success or by any
\* failure, leaves no file selected and the submit control disabled, also
\* when a file was selected while it ran; with no file selected nothing can be
\* submitted, and a file comes to be selected only by a selection event that
\* delivers a .csv file.
C15_CompletionClearsFile ==
    /\ [][\A i \in 1..MaxTasks : Returns(i) => file' = Null /\ SubmitDisabled']_vars
    /\ [](file = Null => ~ENABLED Submit)
    /\ [][file = Null /\ file' # Null => SelectCsv]_vars

\* A submission has failed and returned: no file is selected and nothing runs.
C15_Witness ==
    /\ tasks = <<>>
    /\ file = Null
    /\ message = Msg("error", <<FailedToProcessFile>>)
====
